---------------------------- MODULE Spec2Model ----------------------------
(***************************************************************************)
(* Model of src/vfm/vfm.py (Virtual Forest Mind CLI): the search command   *)
(* (argument parsing, pattern compilation, directory resolution, the       *)
(* recursive scan, the presentation of the results) and the stats command. *)
(*                                                                         *)
(* Strings that the program splits into characters (file contents, search  *)
(* patterns, the line typed at the prompt) are sequences of one-character  *)
(* strings.  Strings that the program only turns into paths (targets,      *)
(* configured directories) and space names are sequences of path           *)
(* components: <<"/", "r", "a">> is "/r/a", <<"a", "s">> is "a/s",         *)
(* <<"all">> is "all".  A resolved path is the sequence of its components  *)
(* below the root.                                                         *)
(***************************************************************************)
EXTENDS Integers, Sequences, FiniteSets, TLC

VARIABLES
    platform,    \* "posix" or "nt": decides the case rule of Path.rglob
    spaces,      \* ConfigManager.spaces: ordered <<name, directory>> pairs
    fs,          \* the file system: [dirs: set of paths, files: path -> entry]
    argv,        \* the command line: [command, target, pattern, dashI]
    tty,         \* the lines the user may type at the prompt
    pc,          \* position of the running command
    args,        \* the argparse namespace: [target, pattern, ignore_case]
    regex,       \* the compiled pattern: [lit, ic]
    dirs,        \* local `dirs` of search / stats
    di,          \* number of directories of `dirs` already walked
    matches,     \* local `matches` of search: <<path, title>> pairs
    seen,        \* local `seen` of search
    reads,       \* every read_text call so far, in order
    out,         \* terminal and editor events, in order
    choice,      \* the stripped line read at the prompt
    err,         \* the exception that left the command, or "none"
    counts,      \* stats: file_count, dir_count, line_count, word_count and
                 \* `counted`, the files added to file_count, in order
    tag_counter, \* count_tags: the bag of tags, as a function tag -> count
    tagged       \* count_tags: the files whose frontmatter was scanned

vars == <<platform, spaces, fs, argv, tty, pc, args, regex, dirs, di, matches,
          seen, reads, out, choice, err, counts, tag_counter, tagged>>

-----------------------------------------------------------------------------
(* Bounds of the model *)

MaxSpaces == 2
MaxPatLen == 2
MaxInputLen == 2
MaxMatches == 3

-----------------------------------------------------------------------------
(* Generic helpers on sequences *)

Range(s) == {s[i] : i \in 1..Len(s)}

SeqsUpTo(S, n) == UNION {[1..k -> S] : k \in 0..n}

IsPrefix(p, s) == Len(p) <= Len(s) /\ \A i \in 1..Len(p) : s[i] = p[i]

Drop(s, n) == IF n >= Len(s) THEN <<>> ELSE SubSeq(s, n + 1, Len(s))

NoDup(s) == \A i, j \in 1..Len(s) : s[i] = s[j] => i = j

-----------------------------------------------------------------------------
(* Characters and str methods *)

NL == "\n"
None == <<"<None>">>
Whitespace == {" ", NL}

\* str.lower / re.IGNORECASE folding, on the model's alphabet
LowerCh(c) == IF c = "T" THEN "t" ELSE c

RECURSIVE LStrip(_)
LStrip(s) == IF s # <<>> /\ Head(s) \in Whitespace THEN LStrip(Tail(s)) ELSE s

RECURSIVE RStrip(_)
RStrip(s) ==
    IF s # <<>> /\ s[Len(s)] \in Whitespace
    THEN RStrip(SubSeq(s, 1, Len(s) - 1)) ELSE s

\* str.strip()
Strip(s) == RStrip(LStrip(s))

\* str.splitlines(): a trailing newline opens no further line
RECURSIVE SplitLinesFrom(_, _)
SplitLinesFrom(s, cur) ==
    IF s = <<>> THEN (IF cur = <<>> THEN <<>> ELSE <<cur>>)
    ELSE IF Head(s) = NL THEN <<cur>> \o SplitLinesFrom(Tail(s), <<>>)
    ELSE SplitLinesFrom(Tail(s), Append(cur, Head(s)))

SplitLines(s) == SplitLinesFrom(s, <<>>)

\* str.split() of one line: the number of whitespace-separated words
RECURSIVE WordCountFrom(_, _)
WordCountFrom(s, inWord) ==
    IF s = <<>> THEN 0
    ELSE IF Head(s) \in Whitespace THEN WordCountFrom(Tail(s), FALSE)
    ELSE (IF inWord THEN 0 ELSE 1) + WordCountFrom(Tail(s), TRUE)

WordCount(line) == WordCountFrom(line, FALSE)

-----------------------------------------------------------------------------
(* re.compile and Pattern.search, on patterns made of literals and groups *)

PatChars == {"t", "T", "(", ")"}

\* the nesting depth after reading p from depth d, or -1 when a group is
\* closed that was never opened
RECURSIVE ParenDepth(_, _)
ParenDepth(p, d) ==
    IF p = <<>> THEN d
    ELSE IF Head(p) = "(" THEN ParenDepth(Tail(p), d + 1)
    ELSE IF Head(p) = ")" THEN (IF d = 0 THEN -1 ELSE ParenDepth(Tail(p), d - 1))
    ELSE ParenDepth(Tail(p), d)

\* re.compile raises re.error on an unterminated or unbalanced group
ValidPattern(p) == ParenDepth(p, 0) = 0

\* the compiled pattern: over this alphabet a valid pattern is the
\* concatenation of its literals, groups capture and change no match
ReCompile(p, ignore_case) ==
    [lit |-> SelectSeq(p, LAMBDA c : c \notin {"(", ")"}), ic |-> ignore_case]

CharMatches(rx, pc_, tc) == IF rx.ic THEN LowerCh(pc_) = LowerCh(tc) ELSE pc_ = tc

\* regex.search(text): some occurrence anywhere in the text
ReSearch(rx, text) ==
    \E i \in 0..(Len(text) - Len(rx.lit)) :
        \A j \in 1..Len(rx.lit) : CharMatches(rx, rx.lit[j], text[i + j])

-----------------------------------------------------------------------------
(* Paths *)

Cwd == <<"r">>
Home == <<"h">>

RECURSIVE Normalize(_, _)
Normalize(parts, acc) ==
    IF parts = <<>> THEN acc
    ELSE IF Head(parts) = "." THEN Normalize(Tail(parts), acc)
    ELSE IF Head(parts) = ".."
         THEN Normalize(Tail(parts),
                        IF acc = <<>> THEN acc ELSE SubSeq(acc, 1, Len(acc) - 1))
    ELSE Normalize(Tail(parts), Append(acc, Head(parts)))

\* Path(p).expanduser().resolve()
ResolvePath(p) ==
    IF p # <<>> /\ Head(p) = "/" THEN Normalize(Tail(p), <<>>)
    ELSE IF p # <<>> /\ Head(p) = "~" THEN Normalize(Tail(p), Home)
    ELSE Normalize(p, Cwd)

Parent(p) == SubSeq(p, 1, Len(p) - 1)
Name(p) == p[Len(p)]

-----------------------------------------------------------------------------
(* The file system *)

DirA == <<"r", "a">>
DirS == <<"r", "a", "s">>
DirB == <<"r", "b">>
N1 == <<"r", "a", "n1.md">>
N2 == <<"r", "a", "s", "n2.md">>
N3 == <<"r", "b", "n3.md">>
N4 == <<"r", "b", "N4.MD">>

DirPaths == {DirA, DirS, DirB}
FilePaths == {N1, N2, N3, N4}

\* os.scandir order: every directory lists its entries in this order
ScanOrder == <<DirA, N1, DirS, N2, DirB, N3, N4>>

\* PurePath.suffix
Suffix(name) ==
    CASE name \in {"n1.md", "n2.md", "n3.md"} -> ".md"
      [] name = "N4.MD" -> ".MD"
      [] OTHER -> ""

\* str.lower() of a suffix
LowerSuffix(sfx) == IF sfx = ".MD" THEN ".md" ELSE sfx

\* the content of each file, when it is there
TextOf(p) ==
    CASE p = N1 -> <<"#", " ", "t", NL, "t">>
      [] p = N2 -> <<"T", "T">>
      [] p = N3 -> <<"-", "-", "-", NL, "-", " ", "t", NL, "-", " ", "T", NL,
                     "-", "-", "-", NL, "#", "#", " ", "T">>
      [] p = N4 -> <<"-", "-", "-", NL, "-", " ", "t", NL, "-", "-", "-", NL, "t">>

FileKinds == {"absent", "file", "noread"}

WellFormedFs(f) ==
    /\ DirS \in f.dirs => DirA \in f.dirs
    /\ \A p \in FilePaths : f.files[p] # "absent" => Parent(p) \in f.dirs

FileSystems ==
    {f \in [dirs : SUBSET DirPaths, files : [FilePaths -> FileKinds]] :
        WellFormedFs(f)}

\* Path.is_dir(): the root and the working directory are always there
IsDir(f, p) == p \in f.dirs \/ p = <<>> \/ p = Cwd

\* Path.is_file()
IsFile(f, p) == p \in FilePaths /\ f.files[p] # "absent"

Exists(f, p) == IsDir(f, p) \/ IsFile(f, p)

\* read_text succeeds
Readable(f, p) == p \in FilePaths /\ f.files[p] = "file"

\* the entries of one directory, in scandir order
Children(f, d) == SelectSeq(ScanOrder, LAMBDA p : Parent(p) = d /\ Exists(f, p))

\* the directories below and including the first of ds, parents first
RECURSIVE WalkDirs(_, _)
WalkDirs(f, ds) ==
    IF ds = <<>> THEN <<>>
    ELSE <<Head(ds)>> \o
         WalkDirs(f, SelectSeq(Children(f, Head(ds)), LAMBDA p : IsDir(f, p))
                     \o Tail(ds))

\* fnmatch of a name against "*.md" or "*": case-sensitive on POSIX only
GlobMatches(plat, glob, name) ==
    CASE glob = "*" -> TRUE
      [] glob = "*.md" ->
            IF plat = "posix" THEN Suffix(name) = ".md"
            ELSE LowerSuffix(Suffix(name)) = ".md"

RECURSIVE SelectIn(_, _, _, _)
SelectIn(f, plat, glob, ds) ==
    IF ds = <<>> THEN <<>>
    ELSE SelectSeq(Children(f, Head(ds)),
                   LAMBDA p : GlobMatches(plat, glob, Name(p)))
         \o SelectIn(f, plat, glob, Tail(ds))

\* list(d.rglob(glob)): nothing when d is no directory
RGlob(f, plat, d, glob) ==
    IF ~IsDir(f, d) THEN <<>>
    ELSE SelectIn(f, plat, glob, WalkDirs(f, <<d>>))

-----------------------------------------------------------------------------
(* ConfigManager.spaces and the command line *)

Get(sp, name) == sp[CHOOSE i \in 1..Len(sp) : sp[i][1] = name][2]

HasSpace(sp, name) == \E i \in 1..Len(sp) : sp[i][1] = name

Omitted == <<"<omitted>">>

\* parser.parse_args(): target defaults to "all", -i is a store_false option
ParseArgs(av) ==
    [target |-> IF av.target = Omitted THEN <<"all">> ELSE av.target,
     pattern |-> av.pattern,
     ignore_case |-> ~av.dashI]

-----------------------------------------------------------------------------
(* SearchManager *)

\* _resolve_dirs with the space lookup ahead of the "all" test
ResolveDirs_NameFirst(sp, target) ==
    IF HasSpace(sp, target) THEN <<ResolvePath(Get(sp, target))>>
    ELSE IF target = <<"all">> THEN [i \in 1..Len(sp) |-> ResolvePath(sp[i][2])]
    ELSE <<ResolvePath(target)>>

\* SearchManager._resolve_dirs
ResolveDirs(sp, target) ==
    IF target = <<"all">> THEN [i \in 1..Len(sp) |-> ResolvePath(sp[i][2])]
    ELSE IF HasSpace(sp, target) THEN <<ResolvePath(Get(sp, target))>>
    ELSE <<ResolvePath(target)>>

\* SearchManager._extract_h1
RECURSIVE FirstH1(_)
FirstH1(lines) ==
    IF lines = <<>> THEN None
    ELSE IF IsPrefix(<<"#", " ">>, Head(lines)) /\ ~IsPrefix(<<"#", "#">>, Head(lines))
         THEN Strip(Drop(Head(lines), 2))
    ELSE FirstH1(Tail(lines))

ExtractH1(text) == FirstH1(SplitLines(text))

\* the loop body without the `seen` test
ScanFile_NoSeen(f, rx, st, md) ==
    LET st1 == [st EXCEPT !.reads = Append(@, md)]
    IN  IF ~Readable(f, md) THEN st1
        ELSE IF ReSearch(rx, TextOf(md))
             THEN [st1 EXCEPT !.matches = Append(@, <<md, ExtractH1(TextOf(md))>>),
                              !.seen = @ \cup {md}]
        ELSE st1

\* the loop body without the `continue` of the except clause: a file that
\* cannot be read is recorded all the same
ScanFile_NoTry(f, rx, st, md) ==
    IF md \in st.seen THEN st
    ELSE LET st1 == [st EXCEPT !.reads = Append(@, md)]
         IN  IF ~Readable(f, md)
             THEN [st1 EXCEPT !.matches = Append(@, <<md, None>>),
                              !.seen = @ \cup {md}]
             ELSE IF ReSearch(rx, TextOf(md))
                  THEN [st1 EXCEPT !.matches = Append(@, <<md, ExtractH1(TextOf(md))>>),
                                   !.seen = @ \cup {md}]
             ELSE st1

\* one pass of the inner loop body of search, on the locals st
ScanFile(f, rx, st, md) ==
    IF md \in st.seen THEN st
    ELSE LET st1 == [st EXCEPT !.reads = Append(@, md)]
         IN  IF ~Readable(f, md) THEN st1
             ELSE IF ReSearch(rx, TextOf(md))
                  THEN [st1 EXCEPT !.matches = Append(@, <<md, ExtractH1(TextOf(md))>>),
                                   !.seen = @ \cup {md}]
             ELSE st1

RECURSIVE ScanFiles(_, _, _, _)
ScanFiles(f, rx, st, mds) ==
    IF mds = <<>> THEN st
    ELSE ScanFiles(f, rx, ScanFile(f, rx, st, Head(mds)), Tail(mds))

\* the inner loop of search over one directory d
ScanOneDir(f, plat, rx, st, d) == ScanFiles(f, rx, st, RGlob(f, plat, d, "*.md"))

RECURSIVE ScanAll(_, _, _, _, _)
ScanAll(f, plat, rx, st, ds) ==
    IF ds = <<>> THEN st
    ELSE ScanAll(f, plat, rx, ScanOneDir(f, plat, rx, st, Head(ds)), Tail(ds))

EmptyScan == [matches |-> <<>>, seen |-> {}, reads |-> <<>>]

\* the match list search hands to _handle_results
SearchMatches(f, plat, rx, ds) == ScanAll(f, plat, rx, EmptyScan, ds).matches

\* the label of one listed match
Label(m) ==
    [parent |-> Name(Parent(m[1])), name |-> Name(m[1]),
     title |-> IF m[2] = None \/ m[2] = <<>> THEN None ELSE m[2]]

Listing(ms) == [i \in 1..Len(ms) |-> [ev |-> "list", n |-> i, arg |-> Label(ms[i])]]

NoMatchMsg == [ev |-> "print", n |-> 0, arg |-> "No matches found."]
Prompt == [ev |-> "prompt", n |-> 0, arg |-> "Select file number to open: "]
Open(path) == [ev |-> "open", n |-> 0, arg |-> path]

\* str.isdigit(): the superscript two (written "^2" here) is a digit that
\* int() refuses
DigitChars == {"0", "1", "2", "^2"}
DecimalChars == {"0", "1", "2"}

IsDigit(s) == s # <<>> /\ \A i \in 1..Len(s) : s[i] \in DigitChars

IntRaises(s) == \E i \in 1..Len(s) : s[i] \notin DecimalChars

DigitValue(c) == CASE c = "0" -> 0 [] c = "1" -> 1 [] c = "2" -> 2

RECURSIVE ToInt(_, _)
ToInt(s, acc) == IF s = <<>> THEN acc ELSE ToInt(Tail(s), 10 * acc + DigitValue(Head(s)))

-----------------------------------------------------------------------------
(* StatsManager *)

\* one pass of the loop body of stats over an entry p of d.rglob("*")
StatEntry(f, st, p) ==
    IF IsDir(f, p) THEN [st EXCEPT !.dir_count = @ + 1]
    ELSE IF IsFile(f, p) /\ LowerSuffix(Suffix(Name(p))) = ".md"
         THEN LET st1 == [st EXCEPT !.file_count = @ + 1,
                                    !.counted = Append(@, p)]
                  lines == SplitLines(TextOf(p))
                  RECURSIVE Words(_)
                  Words(ls) == IF ls = <<>> THEN 0
                               ELSE WordCount(Head(ls)) + Words(Tail(ls))
              IN  IF ~Readable(f, p) THEN st1
                  ELSE [st1 EXCEPT !.line_count = @ + Len(lines),
                                   !.word_count = @ + Words(lines)]
    ELSE st

RECURSIVE StatEntries(_, _, _)
StatEntries(f, st, ps) ==
    IF ps = <<>> THEN st ELSE StatEntries(f, StatEntry(f, st, Head(ps)), Tail(ps))

RECURSIVE StatDirs(_, _, _, _)
StatDirs(f, plat, st, ds) ==
    IF ds = <<>> THEN st
    ELSE StatDirs(f, plat,
                  IF ~IsDir(f, Head(ds)) THEN st
                  ELSE StatEntries(f, st, RGlob(f, plat, Head(ds), "*")),
                  Tail(ds))

EmptyStats ==
    [file_count |-> 0, dir_count |-> 0, line_count |-> 0, word_count |-> 0,
     counted |-> <<>>]

\* the first index >= from at which sub occurs in s, or 0
FindSub(s, sub, from) ==
    LET hits == {i \in from..(Len(s) - Len(sub) + 1) :
                    \A j \in 1..Len(sub) : s[i + j - 1] = sub[j]}
    IN  IF hits = {} THEN 0 ELSE CHOOSE i \in hits : \A k \in hits : i <= k

Dashes == <<"-", "-", "-">>

\* the tags count_tags takes from one text, in order
RECURSIVE TagLines(_)
TagLines(lines) ==
    IF lines = <<>> THEN <<>>
    ELSE LET line == Strip(Head(lines))
             tag == Strip(Drop(line, 2))
         IN  (IF IsPrefix(<<"-", " ">>, line) /\ tag # <<>> THEN <<tag>> ELSE <<>>)
             \o TagLines(Tail(lines))

TagsOf(text) ==
    IF ~IsPrefix(Dashes, text) THEN <<>>
    ELSE LET close == FindSub(text, Dashes, 4)
         IN  IF close = 0 THEN <<>>
             ELSE TagLines(SplitLines(SubSeq(text, 4, close - 1)))

\* Counter: tag_counter[tag] += 1 for every tag of tags
RECURSIVE AddTags(_, _)
AddTags(ctr, tags) ==
    IF tags = <<>> THEN ctr
    ELSE LET t == Head(tags)
             n == IF t \in DOMAIN ctr THEN ctr[t] ELSE 0
         IN  AddTags([x \in DOMAIN ctr \cup {t} |-> IF x = t THEN n + 1 ELSE ctr[x]],
                     Tail(tags))

EmptyCounter == [t \in {} |-> 0]

\* one pass of the loop body of count_tags over md
TagFile(f, st, md) ==
    IF ~Readable(f, md) THEN st
    ELSE [tag_counter |-> AddTags(st.tag_counter, TagsOf(TextOf(md))),
          tagged |-> Append(st.tagged, md)]

RECURSIVE TagFiles(_, _, _)
TagFiles(f, st, mds) ==
    IF mds = <<>> THEN st ELSE TagFiles(f, TagFile(f, st, Head(mds)), Tail(mds))

RECURSIVE TagDirs(_, _, _, _)
TagDirs(f, plat, st, ds) ==
    IF ds = <<>> THEN st
    ELSE TagDirs(f, plat,
                 IF ~IsDir(f, Head(ds)) THEN st
                 ELSE TagFiles(f, st, RGlob(f, plat, Head(ds), "*.md")),
                 Tail(ds))

\* the names the module imports: collections.Counter is not among them
Imported == {"Path", "argparse", "configparser", "sys", "time", "re",
             "subprocess", "shlex", "shutil", "Optional"}

-----------------------------------------------------------------------------
(* The inputs the specifications draw from *)

SpaceNames == {<<"a">>, <<"b">>, <<"all">>}

RawDirs == {<<"a">>, <<"/", "r", "a">>, <<"a", "s">>, <<"b">>, <<"c">>,
            <<"a", "..", "b">>, <<"~", "n">>}

Targets == {<<"all">>, <<"a">>, <<"b">>, <<"A">>, <<"/", "r", "a">>,
            <<"a", "s">>, <<"c">>, <<".">>, <<"~">>}

\* every configuration of at most n spaces: the names of a dict are distinct
Configs(n) ==
    {sp \in SeqsUpTo(SpaceNames \X RawDirs, n) :
        \A i, j \in 1..Len(sp) : sp[i][1] = sp[j][1] => i = j}

\* the configurations of the search and stats runs: two sibling spaces; a
\* space nested in another and a missing one; one directory configured twice
RunConfigs ==
    { << <<(<<"a">>), <<"a">> >>, <<(<<"b">>), <<"/", "r", "b">> >> >>,
      << <<(<<"a">>), <<"a">> >>, <<(<<"s">>), <<"a", "s">> >>, <<(<<"c">>), <<"c">> >> >>,
      << <<(<<"b">>), <<"b">> >>, <<(<<"all">>), <<"a", "..", "b">> >> >> }

RunTargets == {Omitted, <<"a">>, <<"c">>, <<".">>, <<"a", "s", "n2.md">>}

StatsTargets == {<<"all">>, <<"a">>, <<"b">>, <<"c">>, <<".">>}

Patterns == SeqsUpTo(PatChars, MaxPatLen)

InputChars == {"0", "1", "2", "x", " ", "^2"}

Lines == SeqsUpTo(InputChars, MaxInputLen)

\* the lines typed in the end-to-end search runs
ScriptedLines == {<<>>, <<"2">>, <<" ", "1">>, <<"0">>, <<"x">>}

Titles == {None, <<>>, <<"t">>}

\* every match list of at most n records with distinct paths
MatchLists(n) ==
    UNION {{[i \in 1..k |-> <<ps[i], ts[i]>>] :
                ps \in {q \in [1..k -> FilePaths] : NoDup(q)},
                ts \in [1..k -> Titles]} : k \in 0..n}

-----------------------------------------------------------------------------
(* Initial states *)

NoArgs == [target |-> <<>>, pattern |-> <<>>, ignore_case |-> FALSE]
NoRegex == [lit |-> <<>>, ic |-> FALSE]
NoArgv == [command |-> "search", target |-> Omitted, pattern |-> <<>>, dashI |-> FALSE]

\* the locals of a command not yet run, with the given namespace and matches
Locals(a, ms) ==
    /\ args = a
    /\ regex = NoRegex
    /\ dirs = <<>>
    /\ di = 0
    /\ matches = ms
    /\ seen = {}
    /\ reads = <<>>
    /\ out = <<>>
    /\ choice = None
    /\ err = "none"
    /\ counts = EmptyStats
    /\ tag_counter = EmptyCounter
    /\ tagged = <<>>

\* a search command about to run
Init ==
    /\ platform \in {"posix", "nt"}
    /\ spaces \in RunConfigs
    /\ fs \in FileSystems
    /\ argv \in [command : {"search"}, target : RunTargets, pattern : Patterns,
                 dashI : BOOLEAN]
    /\ tty = ScriptedLines
    /\ pc = "start"
    /\ Locals(NoArgs, <<>>)

-----------------------------------------------------------------------------
(* Actions *)

\* VFMApp.run: parse the command line and dispatch on the command
Run ==
    /\ pc = "start"
    /\ args' = ParseArgs(argv)
    /\ pc' = argv.command
    /\ UNCHANGED <<platform, spaces, fs, argv, tty, regex, dirs, di, matches, seen,
                   reads, out, choice, err, counts, tag_counter, tagged>>

\* search compiling the pattern only where it is first used: nothing is
\* raised before the directories are resolved
SearchCompile_Late ==
    /\ pc = "search"
    /\ regex' = ReCompile(args.pattern, args.ignore_case)
    /\ pc' = "resolve"
    /\ UNCHANGED <<platform, spaces, fs, argv, tty, args, dirs, di, matches, seen,
                   reads, out, choice, err, counts, tag_counter, tagged>>

\* search, lines 220-221: re.error leaves search before anything else runs
SearchCompile ==
    /\ pc = "search"
    /\ IF ValidPattern(args.pattern)
       THEN /\ regex' = ReCompile(args.pattern, args.ignore_case)
            /\ pc' = "resolve"
            /\ err' = err
       ELSE /\ regex' = regex
            /\ pc' = "raised"
            /\ err' = "re.error"
    /\ UNCHANGED <<platform, spaces, fs, argv, tty, args, dirs, di, matches, seen,
                   reads, out, choice, counts, tag_counter, tagged>>

\* search, lines 223-225; with no directory the loop is over at once
SearchResolve ==
    /\ pc = "resolve"
    /\ dirs' = ResolveDirs(spaces, args.target)
    /\ di' = 0
    /\ matches' = <<>>
    /\ seen' = {}
    /\ pc' = IF dirs' = <<>> THEN "results" ELSE "scan"
    /\ UNCHANGED <<platform, spaces, fs, argv, tty, args, regex, reads, out,
                   choice, err, counts, tag_counter, tagged>>

\* search, lines 227-238: one iteration of the outer loop
SearchScanDir ==
    /\ pc = "scan"
    /\ di < Len(dirs)
    /\ LET st == ScanOneDir(fs, platform, regex,
                            [matches |-> matches, seen |-> seen, reads |-> reads],
                            dirs[di + 1])
       IN  /\ matches' = st.matches
           /\ seen' = st.seen
           /\ reads' = st.reads
    /\ di' = di + 1
    /\ pc' = IF di' = Len(dirs) THEN "results" ELSE "scan"
    /\ UNCHANGED <<platform, spaces, fs, argv, tty, args, regex, dirs, out,
                   choice, err, counts, tag_counter, tagged>>

\* _handle_results without the single-match branch
HandleResults_NoSingle ==
    /\ pc = "results"
    /\ IF matches = <<>>
       THEN /\ out' = Append(out, NoMatchMsg)
            /\ pc' = "done"
       ELSE /\ out' = Append(out \o Listing(matches), Prompt)
            /\ pc' = "prompt"
    /\ UNCHANGED <<platform, spaces, fs, argv, tty, args, regex, dirs, di, matches,
                   seen, reads, choice, err, counts, tag_counter, tagged>>

\* _handle_results without the return after the single match is opened
HandleResults_NoReturn ==
    /\ pc = "results"
    /\ IF matches = <<>>
       THEN /\ out' = Append(out, NoMatchMsg)
            /\ pc' = "done"
       ELSE /\ out' = Append((IF Len(matches) = 1 THEN Append(out, Open(matches[1][1]))
                              ELSE out) \o Listing(matches), Prompt)
            /\ pc' = "prompt"
    /\ UNCHANGED <<platform, spaces, fs, argv, tty, args, regex, dirs, di, matches,
                   seen, reads, choice, err, counts, tag_counter, tagged>>

\* _handle_results, lines 256-272: up to the call of input()
HandleResults ==
    /\ pc = "results"
    /\ IF matches = <<>>
       THEN /\ out' = Append(out, NoMatchMsg)
            /\ pc' = "done"
       ELSE IF Len(matches) = 1
       THEN /\ out' = Append(out, Open(matches[1][1]))
            /\ pc' = "done"
       ELSE /\ out' = Append(out \o Listing(matches), Prompt)
            /\ pc' = "prompt"
    /\ UNCHANGED <<platform, spaces, fs, argv, tty, args, regex, dirs, di, matches,
                   seen, reads, choice, err, counts, tag_counter, tagged>>

\* lines 273-276 with idx = int(choice): off by one
AfterChoice_OffByOne(c) ==
    IF ~IsDigit(c) THEN [pc |-> "done", err |-> "none", open |-> <<>>]
    ELSE IF IntRaises(c) THEN [pc |-> "raised", err |-> "ValueError", open |-> <<>>]
    ELSE LET idx == ToInt(c, 0)
         IN  IF 0 <= idx /\ idx < Len(matches)
             THEN [pc |-> "done", err |-> "none", open |-> <<Open(matches[idx + 1][1])>>]
             ELSE [pc |-> "done", err |-> "none", open |-> <<>>]

\* the effect of lines 273-276 on a stripped line c
AfterChoice(c) ==
    IF ~IsDigit(c) THEN [pc |-> "done", err |-> "none", open |-> <<>>]
    ELSE IF IntRaises(c) THEN [pc |-> "raised", err |-> "ValueError", open |-> <<>>]
    ELSE LET idx == ToInt(c, 0) - 1
         IN  IF 0 <= idx /\ idx < Len(matches)
             THEN [pc |-> "done", err |-> "none", open |-> <<Open(matches[idx + 1][1])>>]
             ELSE [pc |-> "done", err |-> "none", open |-> <<>>]

\* _handle_results, lines 272-276: input() returns a line
ReadChoice ==
    /\ pc = "prompt"
    /\ \E line \in tty :
          /\ choice' = Strip(line)
          /\ out' = out \o AfterChoice(choice').open
          /\ pc' = AfterChoice(choice').pc
          /\ err' = AfterChoice(choice').err
    /\ UNCHANGED <<platform, spaces, fs, argv, tty, args, regex, dirs, di, matches,
                   seen, reads, counts, tag_counter, tagged>>

StatsLine(target, st) ==
    [ev |-> "stats", n |-> 0,
     arg |-> <<st.dir_count, st.file_count, st.line_count, st.word_count>>]

\* stats, lines 287-311
Stats ==
    /\ pc = "stats"
    /\ dirs' = ResolveDirs(spaces, args.target)
    /\ counts' = StatDirs(fs, platform, EmptyStats, dirs')
    /\ out' = Append(out, StatsLine(args.target, counts'))
    /\ pc' = "count_tags"
    /\ UNCHANGED <<platform, spaces, fs, argv, tty, args, regex, di, matches, seen,
                   reads, choice, err, tag_counter, tagged>>

TagsLine(ctr) == [ev |-> "tags", n |-> Cardinality(DOMAIN ctr), arg |-> ctr]
NoTagsMsg == [ev |-> "print", n |-> 0, arg |-> "No tags found."]

\* count_tags, lines 340-374: Counter() raises NameError, the name is unbound
CountTags ==
    /\ pc = "count_tags"
    /\ dirs' = ResolveDirs(spaces, args.target)
    /\ IF "Counter" \notin Imported
       THEN /\ pc' = "raised"
            /\ err' = "NameError"
            /\ UNCHANGED <<tag_counter, tagged, out>>
       ELSE LET st == TagDirs(fs, platform,
                              [tag_counter |-> EmptyCounter, tagged |-> <<>>], dirs')
            IN  /\ tag_counter' = st.tag_counter
                /\ tagged' = st.tagged
                /\ out' = Append(out, IF DOMAIN st.tag_counter = {} THEN NoTagsMsg
                                      ELSE TagsLine(st.tag_counter))
                /\ pc' = "done"
                /\ err' = err
    /\ UNCHANGED <<platform, spaces, fs, argv, tty, args, regex, di, matches, seen,
                   reads, choice, counts>>

-----------------------------------------------------------------------------
(* Specifications *)

\* one search command, from the command line to the editor
Next ==
    \/ Run
    \/ SearchCompile
    \/ SearchResolve
    \/ SearchScanDir
    \/ HandleResults
    \/ ReadChoice

Spec == Init /\ [][Next]_vars

\* _resolve_dirs alone, on every configuration and target
InitResolve ==
    /\ platform = "posix"
    /\ spaces \in Configs(MaxSpaces)
    /\ fs = [dirs |-> {}, files |-> [p \in FilePaths |-> "absent"]]
    /\ argv = NoArgv
    /\ tty = {}
    /\ pc = "resolve"
    /\ \E t \in Targets : Locals([NoArgs EXCEPT !.target = t], <<>>)

NextResolve == SearchResolve

SpecResolve == InitResolve /\ [][NextResolve]_vars

\* _handle_results alone, on every match list and typed line
InitPresent ==
    /\ platform = "posix"
    /\ spaces = <<>>
    /\ fs = [dirs |-> {}, files |-> [p \in FilePaths |-> "absent"]]
    /\ argv = NoArgv
    /\ tty = Lines
    /\ pc = "results"
    /\ \E ms \in MatchLists(MaxMatches) : Locals(NoArgs, ms)

NextPresent ==
    \/ HandleResults
    \/ ReadChoice

SpecPresent == InitPresent /\ [][NextPresent]_vars

\* one stats command
InitStats ==
    /\ platform \in {"posix", "nt"}
    /\ spaces \in RunConfigs
    /\ fs \in FileSystems
    /\ argv \in [command : {"stats"}, target : StatsTargets, pattern : {<<>>},
                 dashI : {FALSE}]
    /\ tty = {}
    /\ pc = "start"
    /\ Locals(NoArgs, <<>>)

NextStats ==
    \/ Run
    \/ Stats
    \/ CountTags

SpecStats == InitStats /\ [][NextStats]_vars

-----------------------------------------------------------------------------
(* Vocabulary of the properties *)

Opens == SelectSeq(out, LAMBDA e : e.ev = "open")

Prompted == \E i \in 1..Len(out) : out[i].ev = "prompt"

MatchPaths == [i \in 1..Len(matches) |-> matches[i][1]]

Scanned == pc \in {"results", "prompt", "done"} \/ (pc = "raised" /\ err = "ValueError")

\* the decimal numerals of k, 1 <= k <= 9, that fit a typed line
NumeralChar == <<"1", "2", "3", "4", "5", "6", "7", "8", "9">>
Numerals(k) == {[i \in 1..(m + 1) |-> IF i = m + 1 THEN NumeralChar[k] ELSE "0"] :
                    m \in 0..MaxInputLen}

ValidChoice == \E k \in 1..Len(matches) : choice \in Numerals(k)

\* a pattern with a group closed before it is opened, or left open
Malformed(p) ==
    LET opened(k) == Cardinality({i \in 1..k : p[i] = "("})
        closed(k) == Cardinality({i \in 1..k : p[i] = ")"})
    IN  \/ \E k \in 1..Len(p) : closed(k) > opened(k)
        \/ opened(Len(p)) # closed(Len(p))

RECURSIVE Flatten(_)
Flatten(ss) == IF ss = <<>> THEN <<>> ELSE Head(ss) \o Flatten(Tail(ss))

\* the Markdown files met so far, in the order the walk meets them
Discovered == Flatten([i \in 1..di |-> RGlob(fs, platform, dirs[i], "*.md")])

\* a file the scan reports: it can be read and the pattern occurs in it
Hit(p) == fs.files[p] = "file" /\ ReSearch(regex, TextOf(p))

FirstOccurrences(s) ==
    LET keep == {i \in 1..Len(s) : \A j \in 1..(i - 1) : s[j] # s[i]}
        pos(n) == CHOOSE i \in keep : Cardinality({j \in keep : j < i}) = n - 1
    IN  [n \in 1..Cardinality(keep) |-> s[pos(n)]]

\* the file system without its unreadable files
Cleaned(f) ==
    [f EXCEPT !.files = [p \in FilePaths |->
                            IF f.files[p] = "noread" THEN "absent" ELSE f.files[p]]]

-----------------------------------------------------------------------------
(* Properties *)

\* C1: with two or more matches listed, the selection step ends only on an
\* empty line or on a numeral of a listed match; any other line is answered
\* by a new prompt.  (SpecPresent)
C1_EndsOnlyOnCancelOrValid ==
    (pc \in {"done", "raised"} /\ Len(matches) >= 2 /\ choice # None)
        => (choice = <<>> \/ ValidChoice)

\* C2: _resolve_dirs returns the resolved directory of every space, in the
\* configured order, for the target "all", also when a space is named "all";
\* else the one resolved directory of the space named exactly like the
\* target; else the one absolute form of the target.  (SpecResolve)
C2_Resolution ==
    pc # "resolve" =>
        IF args.target = <<"all">>
        THEN /\ Len(dirs) = Len(spaces)
             /\ \A i \in 1..Len(spaces) : dirs[i] = ResolvePath(spaces[i][2])
        ELSE IF \E i \in 1..Len(spaces) : spaces[i][1] = args.target
        THEN \E i \in 1..Len(spaces) :
                /\ spaces[i][1] = args.target
                /\ dirs = <<ResolvePath(spaces[i][2])>>
        ELSE dirs = <<ResolvePath(args.target)>>

\* the target "all" with a space named "all" among two spaces
C2_Witness ==
    /\ pc # "resolve"
    /\ args.target = <<"all">>
    /\ Len(spaces) = 2
    /\ \E i \in 1..Len(spaces) : spaces[i][1] = <<"all">>
    /\ Len(dirs) = 2

\* C3: the match list never holds two records of one path, and its records
\* stand in the order of the first discovery of their files.  (Spec)
C3_DedupFirstDiscovery ==
    (pc = "scan" \/ Scanned) =>
        /\ NoDup(MatchPaths)
        /\ MatchPaths = FirstOccurrences(SelectSeq(Discovered, Hit))

\* a matching file was discovered twice and is reported once
C3_Witness ==
    /\ pc = "results"
    /\ \E i, j \in 1..Len(Discovered) :
          i < j /\ Discovered[i] = Discovered[j] /\ Hit(Discovered[i])
    /\ Len(matches) >= 2

\* C4: a pattern that is no regular expression raises re.error out of search
\* before a directory is resolved, a file is read or anything is shown.  (Spec)
C4_InvalidPatternRaisesFirst ==
    (Malformed(argv.pattern) /\ pc \notin {"start", "search"}) =>
        /\ pc = "raised"
        /\ err = "re.error"
        /\ dirs = <<>>
        /\ reads = <<>>
        /\ out = <<>>

\* the pattern "(" has raised while files that would be read exist
C4_Witness ==
    /\ pc = "raised"
    /\ err = "re.error"
    /\ argv.pattern = <<"(">>
    /\ fs.files[N1] = "file"

\* C5: with matches listed 1..n, n >= 2, the numeral of k in 1..n opens the
\* k-th listed match and nothing else and ends the step; an empty line ends
\* the step with nothing opened.  (SpecPresent)
C5_Selection ==
    (pc \in {"done", "raised"} /\ Len(matches) >= 2) =>
        /\ \A k \in 1..Len(matches) :
              choice \in Numerals(k) =>
                  /\ pc = "done"
                  /\ Len(Opens) = 1
                  /\ Opens[1].arg = matches[k][1]
        /\ choice = <<>> => (pc = "done" /\ Opens = <<>>)

\* three matches, the line "2": the second match is opened
C5_Witness ==
    /\ pc = "done"
    /\ Len(matches) = 3
    /\ choice = <<"2">>
    /\ Len(Opens) = 1
    /\ Opens[1].arg = matches[2][1]

\* C6: no prompt is issued for fewer than two matches: with none, the fixed
\* message is the only output and no file is opened; with one, that file is
\* opened and nothing else happens.  (Spec)
C6_NoPromptBelowTwo ==
    /\ (pc = "prompt" \/ Prompted) => Len(matches) >= 2
    /\ (pc = "done" /\ Len(matches) = 0) =>
          (Len(out) = 1 /\ out[1].ev = "print" /\ out[1].arg = "No matches found.")
    /\ (pc = "done" /\ Len(matches) = 1) =>
          (Len(out) = 1 /\ out[1].ev = "open" /\ out[1].arg = matches[1][1])

\* a scan with exactly one match has opened it without a prompt
C6_Witness ==
    /\ pc = "done"
    /\ Len(matches) = 1
    /\ reads # <<>>
    /\ Len(out) = 1
    /\ out[1].ev = "open"

\* C7: the match list of a scan is the match list of the same scan over the
\* directories that exist and a file system without the unreadable files.  (Spec)
C7_SkipsMissingAndUnreadable ==
    Scanned =>
        matches = SearchMatches(Cleaned(fs), platform, regex,
                                SelectSeq(dirs, LAMBDA d : IsDir(fs, d)))

\* a scan met a missing directory and an unreadable file and still reports
C7_Witness ==
    /\ pc = "results"
    /\ \E i \in 1..Len(dirs) : ~IsDir(fs, dirs[i])
    /\ \E i \in 1..Len(reads) : fs.files[reads[i]] = "noread"
    /\ matches # <<>>

\* C8: the search is case-insensitive exactly when -i was given.  (Spec)
C8_DashILowersSensitivity ==
    (pc = "scan" \/ Scanned) => (regex.ic <=> argv.dashI)

\* C9: at the end of a stats run the files whose tags were counted are the
\* files counted in file_count.  (SpecStats)
C9_TagsOverCountedFiles ==
    pc \in {"done", "raised"} => Range(tagged) = Range(counts.counted)

\* C10: one search opens at most one file, and it is the path of a record
\* of the match list.  (Spec)
C10_AtMostOneOpen ==
    /\ Len(Opens) <= 1
    /\ \A i \in 1..Len(Opens) : Opens[i].arg \in Range(MatchPaths)

\* a listed match other than the first was chosen and opened
C10_Witness ==
    /\ pc = "done"
    /\ Len(matches) >= 2
    /\ Len(Opens) = 1
    /\ Opens[1].arg = matches[2][1]
    /\ reads # <<>>

=============================================================================
